---- MODULE Spec2Model ----
(***************************************************************************)
(* Adversarial search of the checkers AI server (src/ai-server/ai.py):     *)
(* heuristic_function, minimax, alpha_beta, get_next_move, pick_next_move. *)
(*                                                                         *)
(* The board library (libcheckers) is an external collaborator.  It is     *)
(* represented by draughts on a single file of NumSquares squares: the     *)
(* owner / piece_class arrays the heuristic reads, forward moves, captures *)
(* by jumping, promotion on the far square, and a legality rule with or    *)
(* without mandatory capture.                                              *)
(*                                                                         *)
(* The game arena (src/game-arena/arena.py) runs one game between two move *)
(* providers on the same board: run_game, get_player_move and the two      *)
(* providers get_player_move_from_server / get_player_move_from_keyboard.  *)
(***************************************************************************)
EXTENDS Integers, Sequences, FiniteSets

\* ------------------------------------------------------------------ bounds
NumSquares == 5
MaxPieces == 3
MaxDepth == 4

\* arena.py, line 27: the number of moves of each player after which a game
\* is a draw.  The arena sets 100; games on the file of NumSquares squares
\* last a few moves, so the limit is scaled down for it to be reached.
MAX_MOVES == 2

\* float("-inf") and float("inf"): below and above every heuristic grade
NegInf == -99
PosInf == 99

\* the fixed ply budgets of get_next_move
DepthAlphaBeta == 5
DepthMinimax == 4

VARIABLES
    board,                \* the position handed to the AI
    forced,               \* board library rule: captures are mandatory
    pc,                   \* position of the running call
    player,               \* get_next_move: the player to move
    mode,                 \* get_next_move: 'abpruning' or 'minmax_simple'
    pos_moves,            \* get_next_move: board.get_available_moves(player)
    idx,                  \* get_next_move: index of the candidate of the for loop
    list_h,               \* get_next_move: leaf grades of the current candidate
    future_states_grades, \* get_next_move: one grade per candidate searched
    next_move,            \* get_next_move: the move returned
    call,                 \* direct call of minimax / alpha_beta: its arguments
    out,                  \* direct call of minimax / alpha_beta: its outcome
    args,                 \* run_game: white_server and black_server
    move_number,          \* run_game: counter of the for loop
    game_moves,           \* run_game: moves, the moves recorded, oldest first
    allowed_moves,        \* get_player_move: board.get_available_moves(player)
    player_move,          \* get_player_move: move, the move picked
    warned,               \* the log holds the warning of a move not allowed
    game_over_reason      \* run_game: the outcome returned

vars == <<board, forced, pc, player, mode, pos_moves, idx, list_h,
          future_states_grades, next_move, call, out,
          args, move_number, game_moves, allowed_moves, player_move, warned,
          game_over_reason>>

\* the variables of the arena, and those of the AI server besides board,
\* forced, pc and player
arena_vars == <<args, move_number, game_moves, allowed_moves, player_move,
                warned,
                game_over_reason>>
ai_vars == <<mode, pos_moves, idx, list_h, future_states_grades, next_move,
             call, out>>

\* ------------------------------------------------------- board collaborator
Squares == 1..NumSquares
Players == {1, 2}
None == [start_index |-> 0, end_index |-> 0]

Max(a, b) == IF a >= b THEN a ELSE b
Min(a, b) == IF a <= b THEN a ELSE b

RECURSIVE SeqMax(_)
SeqMax(s) == IF Len(s) = 1 THEN s[1] ELSE Max(s[1], SeqMax(Tail(s)))

Opponent(p) == IF p = 1 THEN 2 ELSE 1

get_player_squares(b, p) == {sq \in Squares : b.owner[sq] = p}

\* player 1 (white) advances towards square 1, player 2 towards NumSquares
Directions(b, p, sq) ==
    IF b.piece_class[sq] = 2 THEN <<-1, 1>>
    ELSE IF p = 1 THEN <<-1>> ELSE <<1>>

ForwardMovesFrom(b, p, sq) ==
    LET dirs == Directions(b, p, sq)
        cand == [i \in 1..Len(dirs) |->
                    [start_index |-> sq, end_index |-> sq + dirs[i]]]
    IN SelectSeq(cand, LAMBDA m : /\ m.end_index \in Squares
                                  /\ b.owner[m.end_index] = 0)

CaptureMovesFrom(b, p, sq) ==
    LET dirs == <<-1, 1>>
        cand == [i \in 1..2 |->
                    [start_index |-> sq, end_index |-> sq + 2 * dirs[i]]]
    IN SelectSeq(cand, LAMBDA m :
            /\ m.end_index \in Squares
            /\ b.owner[(m.start_index + m.end_index) \div 2] = Opponent(p)
            /\ b.owner[m.end_index] = 0)

RECURSIVE ForwardMoves(_, _, _)
ForwardMoves(b, p, sq) ==
    IF sq > NumSquares THEN <<>>
    ELSE (IF b.owner[sq] = p THEN ForwardMovesFrom(b, p, sq) ELSE <<>>)
         \o ForwardMoves(b, p, sq + 1)

RECURSIVE CaptureMoves(_, _, _)
CaptureMoves(b, p, sq) ==
    IF sq > NumSquares THEN <<>>
    ELSE (IF b.owner[sq] = p THEN CaptureMovesFrom(b, p, sq) ELSE <<>>)
         \o CaptureMoves(b, p, sq + 1)

get_available_moves(b, p) ==
    LET cap == CaptureMoves(b, p, 1)
    IN IF forced /\ cap # <<>> THEN cap ELSE ForwardMoves(b, p, 1) \o cap

IsCapture(m) == m.end_index - m.start_index \in {-2, 2}

\* move.apply(board): a new board, the argument is left alone
apply(m, b) ==
    LET p == b.owner[m.start_index]
        mid == (m.start_index + m.end_index) \div 2
        crowned == \/ p = 1 /\ m.end_index = 1
                   \/ p = 2 /\ m.end_index = NumSquares
        cls == IF crowned THEN 2 ELSE b.piece_class[m.start_index]
    IN [owner |-> [sq \in Squares |->
                     IF sq = m.end_index THEN p
                     ELSE IF sq = m.start_index THEN 0
                     ELSE IF IsCapture(m) /\ sq = mid THEN 0
                     ELSE b.owner[sq]],
        piece_class |-> [sq \in Squares |->
                     IF sq = m.end_index THEN cls
                     ELSE IF sq = m.start_index THEN 0
                     ELSE IF IsCapture(m) /\ sq = mid THEN 0
                     ELSE b.piece_class[sq]]]

\* every position with at most MaxPieces pieces: a square is empty (0, 0)
\* or holds a man (1) or a king (2) of exactly one player
Cells == {<<0, 0>>, <<1, 1>>, <<1, 2>>, <<2, 1>>, <<2, 2>>}
Boards ==
    {[owner |-> [sq \in Squares |-> c[sq][1]],
      piece_class |-> [sq \in Squares |-> c[sq][2]]] :
        c \in {f \in [Squares -> Cells] :
                 Cardinality({sq \in Squares : f[sq][1] # 0}) <= MaxPieces}}

\* --------------------------------------------------------------- ai.py
\* heuristic_function with the opponent fixed to player 2 whatever p is
heuristic_function_fixed_opponent(b, p) ==
    LET oponent == 2
        n_player == Cardinality(get_player_squares(b, p))
        n_oponent == Cardinality(get_player_squares(b, oponent))
        n_pl_kings == Cardinality({sq \in get_player_squares(b, p) :
                                      b.piece_class[sq] = 2})
        n_op_kings == Cardinality({sq \in get_player_squares(b, oponent) :
                                      b.piece_class[sq] = 2})
    IN (n_player - n_oponent) + (n_pl_kings - n_op_kings)

heuristic_function(b, p) ==
    LET oponent == IF p = 1 THEN 2 ELSE 1
        sq_player == get_player_squares(b, p)
        sq_oponent == get_player_squares(b, oponent)
        n_player == Cardinality(sq_player)
        n_oponent == Cardinality(sq_oponent)
        n_pl_kings == Cardinality({sq \in sq_player : b.piece_class[sq] = 2})
        n_op_kings == Cardinality({sq \in sq_oponent : b.piece_class[sq] = 2})
    IN (n_player - n_oponent) + (n_pl_kings - n_op_kings)

\* The outcome of one call of a search function: the value returned (ret),
\* the grades it appended to the accumulator (list_h), and what the call
\* itself did: whether it applied the pending move (applied) and the values
\* its own recursive calls returned, in order (children).
Leaf(grade) ==
    [ret |-> grade, list_h |-> <<grade>>, applied |-> FALSE, children |-> <<>>]

Entered(init) ==
    [ret |-> init, list_h |-> <<>>, applied |-> TRUE, children |-> <<>>]

\* the terminal test of minimax without its test for an acting player who
\* cannot move
MinimaxTerminal_depth_only(b, depth, p) == depth = 0

\* line 47: the test is made on the board passed in, before move is applied
MinimaxTerminal(b, depth, p) ==
    depth = 0 \/ Len(get_available_moves(b, p)) = 0

\* lines 56 and 63: best_value = float("-inf") in both branches
MinimaxInit(p) == NegInf

\* lines 59 and 66
MinimaxFold(p, best_value, v) ==
    IF p = 1 THEN Max(best_value, v) ELSE Min(best_value, v)

RECURSIVE minimax(_, _, _, _, _)
RECURSIVE MinimaxLoop(_, _, _, _, _, _, _)
MinimaxStep(r, moves, i, new_board, depth, p, st_player, acc) ==
    MinimaxLoop(moves, i + 1, new_board, depth, p, st_player,
                [ret |-> MinimaxFold(p, acc.ret, r.ret),
                 list_h |-> acc.list_h \o r.list_h,
                 applied |-> TRUE,
                 children |-> Append(acc.children, r.ret)])

MinimaxLoop(moves, i, new_board, depth, p, st_player, acc) ==
    IF i > Len(moves) THEN acc
    ELSE MinimaxStep(minimax(moves[i], new_board, depth - 1, Opponent(p), st_player),
                     moves, i, new_board, depth, p, st_player, acc)

minimax(move, b, depth, p, st_player) ==
    IF MinimaxTerminal(b, depth, p) THEN Leaf(heuristic_function(b, st_player))
    ELSE LET new_board == apply(move, b)
         IN MinimaxLoop(get_available_moves(new_board, p), 1, new_board, depth,
                        p, st_player, Entered(MinimaxInit(p)))

\* the terminal test of alpha_beta without its test for an acting player who
\* cannot move
AlphaBetaTerminal_depth_only(b, depth, p) == depth = 0

\* line 109
AlphaBetaTerminal(b, depth, p) ==
    depth = 0 \/ Len(get_available_moves(b, p)) = 0

\* lines 118 and 128: v = float("-inf") in both branches
AlphaBetaInit(p) == NegInf

\* lines 120 and 130
AlphaBetaFold(p, v, r) == IF p = 1 THEN Max(v, r) ELSE Min(v, r)

\* lines 122 and 132: the pruning test that ends the loop
Cut(alfa, beta) == beta <= alfa

RECURSIVE alpha_beta(_, _, _, _, _, _, _)
RECURSIVE AlphaBetaLoop(_, _, _, _, _, _, _, _, _)
AlphaBetaStep(r, moves, i, new_board, depth, alfa, beta, p, st_player, acc) ==
    LET v == AlphaBetaFold(p, acc.ret, r.ret)
        alfa2 == IF p = 1 THEN Max(alfa, v) ELSE alfa
        beta2 == IF p = 1 THEN beta ELSE Min(beta, v)
        acc2 == [ret |-> v,
                 list_h |-> acc.list_h \o r.list_h,
                 applied |-> TRUE,
                 children |-> Append(acc.children, r.ret)]
    IN IF Cut(alfa2, beta2) THEN acc2
       ELSE AlphaBetaLoop(moves, i + 1, new_board, depth, alfa2, beta2, p,
                          st_player, acc2)

AlphaBetaLoop(moves, i, new_board, depth, alfa, beta, p, st_player, acc) ==
    IF i > Len(moves) THEN acc
    ELSE AlphaBetaStep(alpha_beta(moves[i], new_board, depth - 1, alfa, beta,
                                  Opponent(p), st_player),
                       moves, i, new_board, depth, alfa, beta, p, st_player, acc)

alpha_beta(move, b, depth, alfa, beta, p, st_player) ==
    IF AlphaBetaTerminal(b, depth, p) THEN Leaf(heuristic_function(b, st_player))
    ELSE LET new_board == apply(move, b)
         IN AlphaBetaLoop(get_available_moves(new_board, p), 1, new_board,
                          depth, alfa, beta, p, st_player,
                          Entered(AlphaBetaInit(p)))

\* ------------------------------------------------------- get_next_move
Modes == {"abpruning", "minmax_simple"}
OtherMode(md) == IF md = "abpruning" THEN "minmax_simple" ELSE "abpruning"
SearchDepth(md) == IF md = "abpruning" THEN DepthAlphaBeta ELSE DepthMinimax

\* the search call of the loop body, lines 83-89
Search(md, move, b, depth, pl, st_player) ==
    IF md = "abpruning"
    THEN alpha_beta(move, b, depth, NegInf, PosInf, pl, st_player)
    ELSE minimax(move, b, depth, pl, st_player)

\* random.choice(seq): any element
random_choice(seq) == {seq[i] : i \in 1..Len(seq)}

\* the except branch returning the first candidate instead of a random one
FallbackChoice_first(moves) == {moves[1]}

\* line 93: the return of the except branch
FallbackChoice(moves) == random_choice(moves)

\* the loop body without the reset of list_h
ResetAccumulator_missing(l) == l

\* line 95: list_h = [] after a candidate is graded
ResetAccumulator(l) == <<>>

\* line 76 with pl, the opponent, in place of player
candidate_moves_of_opponent(b, p) == get_available_moves(b, Opponent(p))

\* line 76: pos_moves = board.get_available_moves(player)
candidate_moves(b, p) == get_available_moves(b, p)

\* line 97
best_moves_indeces(grades) ==
    {m \in 1..Len(grades) : grades[m] = SeqMax(grades)}

\* get_next_move as a function of its arguments and of the depth handed to
\* the search: the set of moves a call can return ({} when it raises)
Returnable(b, p, md, depth) ==
    LET moves == candidate_moves(b, p)
        leaves == [k \in 1..Len(moves) |->
                     Search(md, moves[k], b, depth, Opponent(p), p).list_h]
    IN IF moves = <<>> THEN {}
       ELSE IF \E k \in 1..Len(moves) : leaves[k] = <<>>
            THEN FallbackChoice(moves)
            ELSE {moves[m] : m \in best_moves_indeces(
                      [k \in 1..Len(moves) |-> SeqMax(leaves[k])])}

NoCall == [fn |-> "none"]
NoArgs == [white_server |-> "none", black_server |-> "none"]

Init ==
    /\ board \in Boards
    /\ forced \in BOOLEAN
    /\ pc = "idle"
    /\ player = 0
    /\ mode = "none"
    /\ pos_moves = <<>>
    /\ idx = 0
    /\ list_h = <<>>
    /\ future_states_grades = <<>>
    /\ next_move = None
    /\ call = NoCall
    /\ out = NoCall
    /\ args = NoArgs
    /\ move_number = 0
    /\ game_moves = <<>>
    /\ allowed_moves = <<>>
    /\ player_move = None
    /\ warned = FALSE
    /\ game_over_reason = "none"

\* lines 75-80 and the loop test: with no candidate the loop body never runs
get_next_move(p, md) ==
    /\ pc = "idle"
    /\ player' = p
    /\ mode' = md
    /\ list_h' = <<>>
    /\ pos_moves' = candidate_moves(board, p)
    /\ future_states_grades' = <<>>
    /\ idx' = 1
    /\ pc' = IF candidate_moves(board, p) = <<>> THEN "select" ELSE "search"
    /\ UNCHANGED arena_vars
    /\ UNCHANGED <<board, forced, next_move, call, out>>

\* pick_next_move, lines 4-10: always the alpha-beta mode
pick_next_move(p) == get_next_move(p, "abpruning")

\* lines 83-89: search the candidate, the grades land in list_h
SearchCandidate ==
    /\ pc = "search"
    /\ list_h' = list_h \o Search(mode, pos_moves[idx], board, SearchDepth(mode),
                                  Opponent(player), player).list_h
    /\ pc' = "grade"
    /\ UNCHANGED arena_vars
    /\ UNCHANGED <<board, forced, player, mode, pos_moves, idx,
                   future_states_grades, next_move, call, out>>

\* lines 90-95: max(list_h), or ValueError on an empty list and the random
\* return; then the reset of list_h and the next iteration
GradeCandidate ==
    /\ pc = "grade"
    /\ IF list_h = <<>>
       THEN /\ next_move' \in FallbackChoice(pos_moves)
            /\ pc' = "done"
            /\ UNCHANGED <<list_h, idx, future_states_grades>>
       ELSE /\ future_states_grades' = Append(future_states_grades, SeqMax(list_h))
            /\ list_h' = ResetAccumulator(list_h)
            /\ idx' = idx + 1
            /\ pc' = IF idx + 1 > Len(pos_moves) THEN "select" ELSE "search"
            /\ UNCHANGED next_move
    /\ UNCHANGED arena_vars
    /\ UNCHANGED <<board, forced, player, mode, pos_moves, call, out>>

\* lines 97-99: random.choice of an empty list raises IndexError
SelectBest ==
    /\ pc = "select"
    /\ IF future_states_grades = <<>>
       THEN pc' = "raised" /\ UNCHANGED next_move
       ELSE /\ \E m \in best_moves_indeces(future_states_grades) :
                 next_move' = pos_moves[m]
            /\ pc' = "done"
    /\ UNCHANGED arena_vars
    /\ UNCHANGED <<board, forced, player, mode, pos_moves, idx, list_h,
                   future_states_grades, call, out>>

\* ------------------------------------- direct calls of the search functions
\* A call as the code makes it: the pending move is a legal move of the
\* opponent of the acting player on the board passed in, the accumulator
\* starts empty.  alfa and beta range over the values below.
AlfaValues == {NegInf, 0}
BetaValues == {0, PosInf}

CallMinimax(move, depth, p, st_player) ==
    /\ pc = "idle"
    /\ call' = [fn |-> "minimax", move |-> move, depth |-> depth,
                alfa |-> NegInf, beta |-> PosInf,
                player |-> p, st_player |-> st_player]
    /\ out' = minimax(move, board, depth, p, st_player)
    /\ pc' = "returned"
    /\ UNCHANGED arena_vars
    /\ UNCHANGED <<board, forced, player, mode, pos_moves, idx, list_h,
                   future_states_grades, next_move>>

CallAlphaBeta(move, depth, alfa, beta, p, st_player) ==
    /\ pc = "idle"
    /\ call' = [fn |-> "alpha_beta", move |-> move, depth |-> depth,
                alfa |-> alfa, beta |-> beta,
                player |-> p, st_player |-> st_player]
    /\ out' = alpha_beta(move, board, depth, alfa, beta, p, st_player)
    /\ pc' = "returned"
    /\ UNCHANGED arena_vars
    /\ UNCHANGED <<board, forced, player, mode, pos_moves, idx, list_h,
                   future_states_grades, next_move>>

\* any direct call, made on the position as it stands
DirectCall ==
    /\ pc = "idle"
    /\ \E p \in Players, st \in Players, depth \in 0..MaxDepth :
         \E move \in random_choice(get_available_moves(board, Opponent(p))) :
            \/ CallMinimax(move, depth, p, st)
            \/ \E alfa \in AlfaValues, beta \in BetaValues :
                  CallAlphaBeta(move, depth, alfa, beta, p, st)

Next ==
    \/ \E p \in Players : pick_next_move(p)
    \/ \E p \in Players : get_next_move(p, "minmax_simple")
    \/ SearchCandidate
    \/ GradeCandidate
    \/ SelectBest
    \/ DirectCall

Spec == Init /\ [][Next]_vars

\* ------------------------------------------------------------- arena.py
\* get_starting_board, lines 243-254: black men on the lowest two fifths of
\* the squares, white men on the highest two fifths, the middle empty
get_starting_board ==
    LET k == (2 * NumSquares) \div 5
    IN [owner |-> [sq \in Squares |->
                     IF sq <= k THEN 2
                     ELSE IF sq > NumSquares - k THEN 1 ELSE 0],
        piece_class |-> [sq \in Squares |->
                     IF sq <= k \/ sq > NumSquares - k THEN 1 ELSE 0]]

\* board.check_game_over(player): the player to move has no legal move
check_game_over(b, p) == get_available_moves(b, p) = <<>>

\* a server given on the command line: the keyboard, or the URL of a server
Servers == {"human", "url"}

\* what a request to a server can come to: an exception or a timeout of
\* requests.post, a status other than 200, a body load_move cannot parse,
\* or a body load_move parses into some move, legal or not
ServerMoves == {[start_index |-> s, end_index |-> e] : s \in Squares, e \in Squares}
Responses ==
    {[kind |-> k, move |-> None] : k \in {"error", "status", "unparsable"}}
    \cup {[kind |-> "parsed", move |-> m] : m \in ServerMoves}

\* get_player_move_from_server, lines 316-347: the moves it may return
get_player_move_from_server(allowed, resp) ==
    IF resp.kind = "error" THEN random_choice(allowed)          \* line 339
    ELSE IF resp.kind = "status" THEN random_choice(allowed)    \* line 334
    ELSE IF resp.kind = "unparsable" THEN random_choice(allowed) \* line 347
    ELSE {resp.move}                                            \* line 342

\* get_player_move_from_keyboard, lines 280-313: the only move, or the
\* entry of the sorted list the user ends up picking
get_player_move_from_keyboard(allowed) ==
    IF Len(allowed) = 1 THEN {allowed[1]} ELSE random_choice(allowed)

\* get_player_move, lines 270-274, with the move accepted whatever it is
PickAllowed_unchecked(m, allowed) == {m}

\* get_player_move, lines 270-274: a move outside allowed_moves is replaced
\* by a random member of allowed_moves
PickAllowed(m, allowed) ==
    IF m \notin random_choice(allowed) THEN random_choice(allowed) ELSE {m}

ArenaInit ==
    /\ board = get_starting_board
    /\ forced \in BOOLEAN
    /\ args \in [white_server : Servers, black_server : Servers]
    /\ pc = "turn"
    /\ player = 1
    /\ move_number = 1
    /\ game_moves = <<>>
    /\ allowed_moves = <<>>
    /\ player_move = None
    /\ warned = FALSE
    /\ game_over_reason = "none"
    /\ mode = "none"
    /\ pos_moves = <<>>
    /\ idx = 0
    /\ list_h = <<>>
    /\ future_states_grades = <<>>
    /\ next_move = None
    /\ call = NoCall
    /\ out = NoCall

\* run_game, lines 171-173 and 181-183: the player to move has lost when
\* the game is over for that player
CheckGameOver ==
    /\ pc = "turn"
    /\ IF check_game_over(board, player)
       THEN /\ pc' = "over"
            /\ game_over_reason' = IF player = 1 THEN "BLACK_WON" ELSE "WHITE_WON"
       ELSE /\ pc' = "ask"
            /\ UNCHANGED game_over_reason
    /\ UNCHANGED <<board, forced, player, args, move_number, game_moves,
                   allowed_moves, player_move, warned>>
    /\ UNCHANGED ai_vars

\* get_player_move, lines 263-268: the legal moves, then the provider
AskProvider ==
    /\ pc = "ask"
    /\ LET allowed == get_available_moves(board, player)
           server == IF player = 1 THEN args.white_server ELSE args.black_server
       IN /\ allowed_moves' = allowed
          /\ IF server = "human"
             THEN player_move' \in get_player_move_from_keyboard(allowed)
             ELSE \E resp \in Responses :
                     player_move' \in get_player_move_from_server(allowed, resp)
    /\ pc' = "asked"
    /\ UNCHANGED <<board, forced, player, args, move_number, game_moves, warned,
                   game_over_reason>>
    /\ UNCHANGED ai_vars

\* get_player_move, lines 270-277: the membership test and the return
get_player_move ==
    /\ pc = "asked"
    /\ player_move' \in PickAllowed(player_move, allowed_moves)
    /\ warned' = (warned \/ player_move \notin random_choice(allowed_moves))
    /\ pc' = "picked"
    /\ UNCHANGED <<board, forced, player, args, move_number, game_moves,
                   allowed_moves, game_over_reason>>
    /\ UNCHANGED ai_vars

\* run_game, lines 176-178 and 186-188: the move is recorded and applied;
\* after Black's move the for loop of line 169 goes on or ends with line 190.
\* A recorded move is kept as the player who made it and whether it was a
\* legal move of that player on the board it was applied to.
ApplyMove ==
    /\ pc = "picked"
    /\ game_moves' = Append(game_moves,
                  [player |-> player,
                   legal |-> player_move \in random_choice(get_available_moves(board, player))])
    /\ board' = apply(player_move, board)
    /\ player' = Opponent(player)
    /\ IF player = 1
       THEN /\ pc' = "turn"
            /\ UNCHANGED <<move_number, game_over_reason>>
       ELSE IF move_number = MAX_MOVES
            THEN /\ pc' = "over"
                 /\ game_over_reason' = "DRAW"
                 /\ UNCHANGED move_number
            ELSE /\ pc' = "turn"
                 /\ move_number' = move_number + 1
                 /\ UNCHANGED game_over_reason
    /\ UNCHANGED <<forced, args, allowed_moves, player_move, warned>>
    /\ UNCHANGED ai_vars

ArenaNext ==
    \/ CheckGameOver
    \/ AskProvider
    \/ get_player_move
    \/ ApplyMove

ArenaSpec == ArenaInit /\ [][ArenaNext]_vars

\* --------------------------------------------------------------- claims
RECURSIVE SeqMin(_)
SeqMin(s) == IF Len(s) = 1 THEN s[1] ELSE Min(s[1], SeqMin(Tail(s)))

\* s is a subsequence of t
RECURSIVE IsSubseq(_, _)
IsSubseq(s, t) ==
    IF s = <<>> THEN TRUE
    ELSE IF t = <<>> THEN FALSE
    ELSE IF s[1] = t[1] THEN IsSubseq(Tail(s), Tail(t))
    ELSE IsSubseq(s, Tail(t))

Returned(fn) == pc = "returned" /\ call.fn = fn
Fallback == pc = "done" /\ Len(future_states_grades) < Len(pos_moves)

Candidates == random_choice(get_available_moves(board, player))

\* C1: whenever the player to move has a legal move, get_next_move (and so
\* pick_next_move) does not raise and the move it returns is one of
\* board.get_available_moves(player), in either mode and on either path.
C1_ReturnsLegalMove ==
    /\ pc = "done" => next_move \in Candidates
    /\ pc = "raised" => get_available_moves(board, player) = <<>>

\* reached: a fallback return after an earlier candidate was graded, in the
\* mode pick_next_move uses, with more than one candidate
C1_Witness ==
    /\ Fallback
    /\ mode = "abpruning"
    /\ Len(future_states_grades) >= 1
    /\ Len(pos_moves) >= 2
    /\ next_move = pos_moves[2]

\* C2: at the same depth, the moves the selector can return with alpha_beta
\* (alfa = -inf, beta = +inf) are the moves it can return with minimax, and
\* so the move a run returned is one the other search would also allow.
C2_PruningKeepsRootChoice ==
    pc = "done" =>
        /\ Returnable(board, player, mode, SearchDepth(mode))
             = Returnable(board, player, OtherMode(mode), SearchDepth(mode))
        /\ next_move \in Returnable(board, player, OtherMode(mode), SearchDepth(mode))

\* C3: with alfa = -inf, beta = +inf and depth <= 4, the largest grade that
\* alpha_beta appended equals the largest grade minimax appends when run
\* with the same move, board, depth, acting player and root player.
C3_SameMaximalLeaf ==
    (/\ Returned("alpha_beta")
     /\ call.alfa = NegInf /\ call.beta = PosInf
     /\ call.depth <= 4) =>
        LET mm == minimax(call.move, board, call.depth, call.player,
                          call.st_player).list_h
        IN /\ (out.list_h = <<>>) = (mm = <<>>)
           /\ out.list_h # <<>> => SeqMax(out.list_h) = SeqMax(mm)

\* the position of C4: the player to move has a capture that takes the
\* opponent's only piece (no piece and no reply is left) and a plain step
TakesLastPiece(m) ==
    /\ IsCapture(m)
    /\ Cardinality(get_player_squares(board, Opponent(player))) = 1
    /\ get_player_squares(apply(m, board), Opponent(player)) = {}
    /\ get_available_moves(apply(m, board), Opponent(player)) = <<>>

CaptureOrStep ==
    /\ \E m \in Candidates : TakesLastPiece(m)
    /\ \E m \in Candidates : ~IsCapture(m)

CandidateLeaves(k) ==
    Search(mode, pos_moves[k], board, SearchDepth(mode), Opponent(player),
           player).list_h

\* the candidates no other candidate outscores
ArgMax(grades) ==
    {k \in 1..Len(grades) : \A j \in 1..Len(grades) : grades[j] <= grades[k]}

\* C5: the accumulator is empty when a candidate's search starts, a
\* candidate's score is the largest grade recorded while searching that
\* candidate only, and when every candidate was scored the moves that can be
\* returned are exactly the candidates of maximal score.
C5_ScoreAndArgmax ==
    /\ pc = "search" => list_h = <<>>
    /\ pc = "grade" => list_h = CandidateLeaves(idx)
    /\ \A k \in 1..Len(future_states_grades) :
          /\ CandidateLeaves(k) # <<>>
          /\ future_states_grades[k] = SeqMax(CandidateLeaves(k))
    /\ (pc = "select" /\ future_states_grades # <<>>) =>
          /\ Len(future_states_grades) = Len(pos_moves)
          /\ best_moves_indeces(future_states_grades) = ArgMax(future_states_grades)
          /\ Returnable(board, player, mode, SearchDepth(mode))
               = {pos_moves[k] : k \in ArgMax(future_states_grades)}
    /\ (pc = "done" /\ ~Fallback) =>
          \E k \in ArgMax(future_states_grades) : next_move = pos_moves[k]

\* reached: three candidates scored, the first lower than the other two, and
\* the last of the two tied best candidates returned
C5_Witness ==
    /\ pc = "done" /\ ~Fallback
    /\ Len(pos_moves) = 3
    /\ future_states_grades[1] < future_states_grades[2]
    /\ future_states_grades[2] = future_states_grades[3]
    /\ next_move = pos_moves[3]

\* C6: when a candidate's search leaves the accumulator empty, the call
\* stops at that candidate without raising and returns a move drawn from the
\* whole candidate list, whatever was scored before.
C6_FallbackInv ==
    /\ (pc = "grade" /\ list_h = <<>>) =>
          /\ FallbackChoice(pos_moves) = Candidates
          /\ Candidates # {}
    /\ Fallback =>
          /\ next_move \in Candidates
          /\ idx = Len(future_states_grades) + 1
          /\ CandidateLeaves(idx) = <<>>
          /\ \A k \in 1..(idx - 1) : CandidateLeaves(k) # <<>>

C6_FallbackStep ==
    (pc = "grade" /\ list_h = <<>>) =>
        /\ pc' = "done"
        /\ next_move' \in Candidates
        /\ idx' = idx
        /\ future_states_grades' = future_states_grades

C6_FallbackOnEmptyAccumulator == []C6_FallbackInv /\ [][C6_FallbackStep]_vars

\* reached: the second candidate's search left nothing, the first had been
\* scored, and the third candidate, never searched, was returned
C6_Witness ==
    /\ Fallback
    /\ idx = 2
    /\ Len(pos_moves) >= 3
    /\ next_move = pos_moves[3]

\* C7: a call of minimax or alpha_beta with depth = 0, or whose acting
\* player has no legal move on the board passed in, makes no recursive call,
\* does not apply the pending move, appends exactly one grade and returns
\* it, and the grade is heuristic_function(board, st_player).
C7_LeafEvaluation ==
    (/\ pc = "returned"
     /\ \/ call.depth = 0
        \/ Len(get_available_moves(board, call.player)) = 0) =>
        /\ out.children = <<>>
        /\ ~out.applied
        /\ Len(out.list_h) = 1
        /\ out.ret = out.list_h[1]
        /\ out.ret = heuristic_function(board, call.st_player)

\* reached: minimax with depth left, an acting player who cannot move, and a
\* grade that is not zero
C7_Witness ==
    /\ Returned("minimax")
    /\ call.depth > 0
    /\ Len(get_available_moves(board, call.player)) = 0
    /\ out.list_h = <<out.ret>>
    /\ out.ret # 0

Men(b, p) == Cardinality({sq \in Squares : b.owner[sq] = p})
Kings(b, p) ==
    Cardinality({sq \in Squares : b.owner[sq] = p /\ b.piece_class[sq] = 2})

\* C8: on every board, heuristic_function(board, 1) is the negation of
\* heuristic_function(board, 2), each being the difference of the squares
\* owned plus the difference of the kings.
C8_HeuristicAntisymmetric ==
    \A b \in {board} \cup {apply(m, board) : m \in random_choice(pos_moves)} :
        /\ heuristic_function(b, 1) = -heuristic_function(b, 2)
        /\ \A p \in Players :
              heuristic_function(b, p) =
                  (Men(b, p) - Men(b, Opponent(p)))
                  + (Kings(b, p) - Kings(b, Opponent(p)))

\* reached: a leaf graded for player 2 on a board where player 2 has a man
\* and a king against one man of player 1
C8_Witness ==
    /\ pc = "returned"
    /\ call.depth = 0
    /\ call.st_player = 2
    /\ out.ret = 2
    /\ Men(board, 2) = 2 /\ Men(board, 1) = 1
    /\ Kings(board, 2) = 1 /\ Kings(board, 1) = 0
    /\ heuristic_function(board, 1) = -2

\* C9: a call that made at least one recursive call returns the maximum of
\* the values its recursive calls returned when the acting player is 1, and
\* their minimum when the acting player is 2.
C9_MaxForOneMinForTwo ==
    (pc = "returned" /\ out.children # <<>>) =>
        out.ret = IF call.player = 1 THEN SeqMax(out.children)
                  ELSE SeqMin(out.children)

\* C10: the grades alpha_beta appended, for any alfa and beta, form a
\* subsequence of the grades minimax appends for the same move, board,
\* depth, acting player and root player.
C10_LeavesSubsequence ==
    Returned("alpha_beta") =>
        IsSubseq(out.list_h,
                 minimax(call.move, board, call.depth, call.player,
                         call.st_player).list_h)

\* reached: alpha_beta cut a branch and appended fewer grades than minimax,
\* with bounds other than -inf and +inf
C10_Witness ==
    /\ Returned("alpha_beta")
    /\ call.alfa = 0
    /\ Len(out.list_h) >= 2
    /\ Len(out.list_h) < Len(minimax(call.move, board, call.depth, call.player,
                                     call.st_player).list_h)

\* the number of moves player p has made in the game
MovesOf(p) == Cardinality({i \in 1..Len(game_moves) : game_moves[i].player = p})

\* C11: in run_game, whatever the providers supply, every move returned by
\* get_player_move is a legal move of the player to move on the current
\* board, and so is every move recorded and applied; the moves alternate
\* White, Black, White, ... starting with White; no player makes more than
\* MAX_MOVES moves, and the game is a draw when both have made MAX_MOVES
\* moves.
C11_ArenaPlaysLegalMoves ==
    /\ pc = "picked" =>
          player_move \in random_choice(get_available_moves(board, player))
    /\ \A i \in 1..Len(game_moves) :
          /\ game_moves[i].legal
          /\ game_moves[i].player = IF i % 2 = 1 THEN 1 ELSE 2
    /\ pc # "over" => player = IF Len(game_moves) % 2 = 0 THEN 1 ELSE 2
    /\ MovesOf(1) <= MAX_MOVES /\ MovesOf(2) <= MAX_MOVES
    /\ move_number \in 1..MAX_MOVES
    /\ MovesOf(2) = MAX_MOVES => (pc = "over" /\ game_over_reason = "DRAW")
    /\ game_over_reason = "DRAW" =>
          (MovesOf(1) = MAX_MOVES /\ MovesOf(2) = MAX_MOVES)

\* reached: a game drawn at the limit in which a provider supplied a move
\* that was not allowed and a random legal move was played instead
C11_Witness ==
    /\ pc = "over"
    /\ game_over_reason = "DRAW"
    /\ Len(game_moves) = 2 * MAX_MOVES
    /\ warned

====
